---- MODULE Spec2Model ----
(***************************************************************************)
(* The MCP chatbot: the Flask request layer (app_flask.py) driving the     *)
(* LangGraph chat/tool graph (mcp_chatbot_backend.py) through one          *)
(* background asyncio loop.                                                *)
(*                                                                         *)
(* State: the module globals _loop and _chatbot, the loop threads, the     *)
(* checkpointer's latest state per thread_id, the requests in flight (one  *)
(* Flask worker thread each) and the coroutines they handed to a loop.     *)
(*                                                                         *)
(* The graph runtime is the library the source calls; its behaviour that   *)
(* the source relies on is modelled at the call sites:                     *)
(*   - ainvoke loads the thread's latest checkpoint once, at its start,    *)
(*     and after every superstep writes its own full copy of the state as  *)
(*     the thread's new latest checkpoint;                                 *)
(*   - add_messages appends, and gives every message an id;                *)
(*   - ToolNode turns a failing or unknown tool into an error ToolMessage; *)
(*   - ainvoke is called without a recursion_limit, so the runtime's       *)
(*     default limit on supersteps applies.                                *)
(***************************************************************************)
EXTENDS Integers, Sequences, FiniteSets, TLC

\* ------------------------------------------------------------------ bounds
MaxReq == 2            \* requests the clients send in one run
MaxPending == 1        \* tool calls one model response may carry
RecursionLimit == 3    \* supersteps one ainvoke may run (the runtime's default is 25)
MaxLoops == 2          \* loop objects get_or_create_loop may create in one run

Reqs == 1..MaxReq
Loops == 1..MaxLoops
NoLoop == 0                \* _loop = None
NoTid == 0                 \* no thread_id (absent from the request, from the session)
MintTids == 1..MaxReq      \* the values uuid4 yields, in the order it yields them
ClientTids == {MaxReq + 1} \* a thread id a client makes up itself
Tids == ClientTids \cup MintTids
Texts == {"hi", " ", ""}   \* message texts a client sends ("" also when it sends none)
Replies == {"r1"}          \* contents of a model answer

\* ------------------------------------------------------------------- state
VARIABLES
    gLoop,      \* _loop: NoLoop or the loop object last assigned
    thr,        \* per created loop object: the thread started with it
    gChatbot,   \* _chatbot is not None
    session,    \* the browser session's "thread_id" (NoTid when absent)
    minted,     \* the uuid4 values drawn so far
    store,      \* checkpointer: messages of the latest checkpoint per thread_id
    known,      \* checkpointer: thread_ids that have a checkpoint
    req,        \* the requests: position of the Flask worker thread serving each
    ijob,       \* the get_or_create_chatbot coroutine ensure_chatbot submits
    job,        \* the coroutine the route handler submits
    resp        \* the HTTP response of each request

vars == <<gLoop, thr, gChatbot, session, minted, store, known, req, ijob, job, resp>>

\* ---------------------------------------------------------------- messages
HumanMessage(c, r) == [role |-> "human", content |-> c, ntc |-> 0, err |-> FALSE, by |-> r]
AIMessage(c, n, r) == [role |-> "ai", content |-> c, ntc |-> n, err |-> FALSE, by |-> r]
ToolMessage(e, r) ==
    [role |-> "tool", content |-> IF e THEN "Error" ELSE "result", ntc |-> 0, err |-> e, by |-> r]

Last(s) == s[Len(s)]

\* str.strip() on the texts of the model
Strip(x) == IF x = " " THEN "" ELSE x

NoJob == [loop |-> NoLoop, pc |-> "none", msgs |-> <<>>, steps |-> 0, err |-> "none", tset |-> {}]
NoIJob == [loop |-> NoLoop, st |-> "none"]
NoResp == [out |-> "none", text |-> "", tid |-> NoTid, hist |-> <<>>, threads |-> {}]
\* arg is the thread_id as the request carries it, tid the one the route uses
NoReq == [pc |-> "new", ph |-> "none", op |-> "none", arg |-> NoTid, tid |-> NoTid, text |-> ""]

\* a conversation an earlier run of the server left in chatbot.db, on the
\* thread id the client made up: a submit with one tool round
Earlier ==
    <<HumanMessage("hi", 0), AIMessage("", 1, 0), ToolMessage(FALSE, 0), AIMessage("r1", 0, 0)>>

\* chatbot.db when the server starts: the earlier conversation, and no
\* checkpoint for the thread ids uuid4 has yet to yield
Database == [t \in Tids |-> IF t \in ClientTids THEN Earlier ELSE <<>>]

\* the module just imported
Init ==
    /\ gLoop = NoLoop
    /\ thr = [l \in Loops |-> [st |-> "none", runs |-> NoLoop]]
    /\ gChatbot = FALSE
    /\ session = NoTid
    /\ minted = {}
    /\ store = Database
    /\ known = {t \in Tids : Database[t] # <<>>}
    /\ req = [r \in Reqs |-> NoReq]
    /\ ijob = [r \in Reqs |-> NoIJob]
    /\ job = [r \in Reqs |-> NoJob]
    /\ resp = [r \in Reqs |-> NoResp]

\* ------------------------------------------------------------ the bridge
\* loop.is_running(): some thread is inside run_forever() of that loop
IsRunning(l) == \E k \in Loops : thr[k].st = "running" /\ thr[k].runs = l

NewLoop == CHOOSE l \in Loops : thr[l].st = "none" /\ \A k \in Loops : thr[k].st = "none" => l <= k

\* get_or_create_loop, line 22: the test
LoopCheck(r) ==
    /\ req[r].pc = "check"
    /\ req' = [req EXCEPT ![r].pc = IF gLoop = NoLoop \/ ~IsRunning(gLoop)
                                    THEN "create" ELSE "submit"]
    /\ UNCHANGED <<gLoop, thr, gChatbot, session, minted, store, known, ijob, job, resp>>

\* get_or_create_loop, lines 23-30: a new loop is assigned and its thread started
LoopCreate(r) ==
    /\ req[r].pc = "create"
    /\ \E l \in Loops : thr[l].st = "none"
    /\ gLoop' = NewLoop
    /\ thr' = [thr EXCEPT ![NewLoop].st = "started"]
    /\ req' = [req EXCEPT ![r].pc = "submit"]
    /\ UNCHANGED <<gChatbot, session, minted, store, known, ijob, job, resp>>

\* run_loop, lines 26-27, in the new thread: run_forever() of whatever _loop
\* names now; run_forever() of a loop that is already running raises
RunLoop(k) ==
    /\ thr[k].st = "started"
    /\ thr' = [thr EXCEPT ![k] = IF IsRunning(gLoop)
                                 THEN [st |-> "dead", runs |-> NoLoop]
                                 ELSE [st |-> "running", runs |-> gLoop]]
    /\ UNCHANGED <<gLoop, gChatbot, session, minted, store, known, req, ijob, job, resp>>

\* get_or_create_loop line 32 and run_async line 37: the coroutine is handed
\* to the loop _loop names now
Submit(r) ==
    /\ req[r].pc = "submit"
    /\ req' = [req EXCEPT ![r].pc = "wait"]
    /\ IF req[r].ph = "init"
       THEN /\ ijob' = [ijob EXCEPT ![r] = [loop |-> gLoop, st |-> "queued"]]
            /\ job' = job
       ELSE /\ job' = [job EXCEPT ![r] = [NoJob EXCEPT !.loop = gLoop, !.pc = "queued"]]
            /\ ijob' = ijob
    /\ UNCHANGED <<gLoop, thr, gChatbot, session, minted, store, known, resp>>

\* uuid.uuid4(): a value never returned before
Uuid4 == CHOOSE u \in MintTids : u \notin minted /\ \A v \in MintTids : v \notin minted => u <= v

\* ------------------------------------------------------------ the routes
\* A route's body up to its run_async call, for request r; q is the request
\* as it arrived.

\* get_thread_id, lines 54-58: the session's thread id, minted when absent
MustMint(t) == t = NoTid /\ session = NoTid

\* mutant of ChatRoute: a route without the test of line 74
ChatRouteNoCheck(r, q) ==
    LET tid == IF q.tid # NoTid THEN q.tid ELSE IF session # NoTid THEN session ELSE Uuid4
    IN  /\ MustMint(q.tid) => \E u \in MintTids : u \notin minted
        /\ session' = IF MustMint(q.tid) THEN tid ELSE session
        /\ minted' = IF MustMint(q.tid) THEN minted \cup {tid} ELSE minted
        /\ resp' = resp
        /\ req' = [req EXCEPT ![r] = [q EXCEPT !.pc = "check", !.tid = tid]]
        /\ UNCHANGED <<store, known>>

\* mutant of ChatRoute: a route that mints a thread id for every request that
\* names none, whatever the session holds
ChatRouteMints(r, q) ==
    LET tid == IF q.tid # NoTid THEN q.tid ELSE Uuid4
    IN  /\ q.tid = NoTid => \E u \in MintTids : u \notin minted
        /\ session' = IF q.tid = NoTid THEN tid ELSE session
        /\ minted' = IF q.tid = NoTid THEN minted \cup {tid} ELSE minted
        /\ IF Strip(q.text) = ""
           THEN /\ resp' = [resp EXCEPT ![r].out = "badinput"]
                /\ req' = [req EXCEPT ![r] = [q EXCEPT !.pc = "done"]]
           ELSE /\ resp' = resp
                /\ req' = [req EXCEPT ![r] = [q EXCEPT !.pc = "check", !.tid = tid,
                                                       !.text = Strip(q.text)]]
        /\ UNCHANGED <<store, known>>

\* chat, lines 70-75
ChatRoute(r, q) ==
    LET tid == IF q.tid # NoTid THEN q.tid ELSE IF session # NoTid THEN session ELSE Uuid4
    IN  /\ MustMint(q.tid) => \E u \in MintTids : u \notin minted
        /\ session' = IF MustMint(q.tid) THEN tid ELSE session
        /\ minted' = IF MustMint(q.tid) THEN minted \cup {tid} ELSE minted
        /\ IF Strip(q.text) = ""
           THEN /\ resp' = [resp EXCEPT ![r].out = "badinput"]
                /\ req' = [req EXCEPT ![r] = [q EXCEPT !.pc = "done"]]
           ELSE /\ resp' = resp
                /\ req' = [req EXCEPT ![r] = [q EXCEPT !.pc = "check", !.tid = tid,
                                                       !.text = Strip(q.text)]]
        /\ UNCHANGED <<store, known>>

\* get_threads, line 107, and get_history, line 146: straight to run_async
AsyncRoute(r, q) ==
    /\ req' = [req EXCEPT ![r] = [q EXCEPT !.pc = "check"]]
    /\ UNCHANGED <<session, minted, resp, store, known>>

\* new_thread, lines 118-125
NewThreadRoute(r, q) ==
    /\ \E u \in MintTids : u \notin minted
    /\ session' = Uuid4
    /\ minted' = minted \cup {Uuid4}
    /\ resp' = [resp EXCEPT ![r].out = "ok", ![r].tid = Uuid4]
    /\ req' = [req EXCEPT ![r] = [q EXCEPT !.pc = "done"]]
    /\ UNCHANGED <<store, known>>

\* mutant of ClearRoute: a route that does clear the thread
ClearRouteDeletes(r, q) ==
    /\ resp' = [resp EXCEPT ![r].out = "unsupported", ![r].tid = q.tid]
    /\ req' = [req EXCEPT ![r] = [q EXCEPT !.pc = "done"]]
    /\ store' = [store EXCEPT ![q.tid] = <<>>]
    /\ known' = known \ {q.tid}
    /\ UNCHANGED <<session, minted>>

\* clear_thread, lines 158-164
ClearRoute(r, q) ==
    /\ resp' = [resp EXCEPT ![r].out = "unsupported", ![r].tid = q.tid]
    /\ req' = [req EXCEPT ![r] = [q EXCEPT !.pc = "done"]]
    /\ UNCHANGED <<session, minted, store, known>>

Route(r, q) ==
    CASE q.op = "chat" -> ChatRoute(r, q)
      [] q.op \in {"threads", "history"} -> AsyncRoute(r, q)
      [] q.op = "new_thread" -> NewThreadRoute(r, q)
      [] q.op = "clear" -> ClearRoute(r, q)

\* a request arrives: ensure_chatbot (before_request, lines 169-178) tests
\* _chatbot, and with the chatbot set the route runs; requests are numbered in
\* the order they arrive
Arrive(r, op, t, x) ==
    LET q == [NoReq EXCEPT !.ph = "op", !.op = op, !.arg = t, !.tid = t, !.text = x]
    IN  /\ req[r].pc = "new"
        /\ \A p \in Reqs : p < r => req[p].pc # "new"
        /\ IF gChatbot
           THEN Route(r, q)
           ELSE /\ req' = [req EXCEPT ![r] = [q EXCEPT !.pc = "check", !.ph = "init"]]
                /\ UNCHANGED <<session, minted, resp, store, known>>
        /\ UNCHANGED <<gLoop, thr, gChatbot, ijob, job>>

\* ensure_chatbot is over (its run_async returned or raised): the route runs
Handler(r) ==
    /\ req[r].pc = "handler"
    /\ Route(r, req[r])
    /\ UNCHANGED <<gLoop, thr, gChatbot, ijob, job>>

\* mutant of ResponseText: the first message instead of the last
ResponseTextFirst(result) == result[1].content

\* mutant of ResponseText: the message before the last
ResponseTextPrev(result) == result[Len(result) - 1].content

\* chat, lines 87 and 91: result["messages"][-1].content
ResponseText(result) == Last(result).content

\* future.result() returns or raises what the coroutine returned or raised
\*   ensure_chatbot, lines 175-178; chat, lines 86-102; get_threads, lines
\*   107-116; get_history, lines 146-156
Return(r) ==
    /\ req[r].pc = "wait"
    /\ IF req[r].ph = "init"
       THEN /\ ijob[r].st = "done"
            /\ req' = [req EXCEPT ![r].pc = "handler", ![r].ph = "op"]
            /\ resp' = resp
       ELSE /\ job[r].pc \in {"done", "failed"}
            /\ req' = [req EXCEPT ![r].pc = "done"]
            /\ resp' = [resp EXCEPT ![r] =
                  IF job[r].pc = "failed"
                  THEN [NoResp EXCEPT !.out = "error"]
                  ELSE CASE req[r].op = "chat" ->
                              [NoResp EXCEPT !.out = "ok", !.tid = req[r].tid,
                                             !.text = ResponseText(job[r].msgs)]
                         [] req[r].op = "history" ->
                              [NoResp EXCEPT !.out = "ok", !.tid = req[r].tid,
                                             !.hist = job[r].msgs]
                         [] req[r].op = "threads" ->
                              [NoResp EXCEPT !.out = "ok", !.threads = job[r].tset]]
    /\ UNCHANGED <<gLoop, thr, gChatbot, session, minted, store, known, ijob, job>>

\* mutant of Timeout: a wait that cancels the coroutine when it gives up
TimeoutCancels(r) ==
    /\ req[r].pc = "wait"
    /\ IF req[r].ph = "init"
       THEN /\ ijob[r].st # "done"
            /\ req' = [req EXCEPT ![r].pc = "handler", ![r].ph = "op"]
            /\ resp' = resp
            /\ job' = job
       ELSE /\ job[r].pc \notin {"done", "failed"}
            /\ req' = [req EXCEPT ![r].pc = "done"]
            /\ resp' = [resp EXCEPT ![r].out = "timeout"]
            /\ job' = [job EXCEPT ![r].pc = "failed", ![r].err = "cancelled"]
    /\ UNCHANGED <<gLoop, thr, gChatbot, session, minted, store, known, ijob>>

\* mutant of Timeout: a wait without a timeout
TimeoutNever(r) ==
    /\ req[r].pc = "wait"
    /\ req[r].ph = "none"
    /\ UNCHANGED vars

\* future.result(timeout=60) raises TimeoutError: the wait ends, the coroutine
\* stays where it is on its loop
Timeout(r) ==
    /\ req[r].pc = "wait"
    /\ IF req[r].ph = "init"
       THEN /\ ijob[r].st # "done"
            /\ req' = [req EXCEPT ![r].pc = "handler", ![r].ph = "op"]
            /\ resp' = resp
       ELSE /\ job[r].pc \notin {"done", "failed"}
            /\ req' = [req EXCEPT ![r].pc = "done"]
            /\ resp' = [resp EXCEPT ![r].out = "timeout"]
    /\ UNCHANGED <<gLoop, thr, gChatbot, session, minted, store, known, ijob, job>>

\* ------------------------------------------------------ work on the loop
\* a coroutine runs only while a thread runs the loop it was handed to
CanRun(l) == l # NoLoop /\ IsRunning(l)

\* get_or_create_chatbot, submitted by ensure_chatbot
InitRun(r) ==
    /\ ijob[r].st = "queued"
    /\ CanRun(ijob[r].loop)
    /\ ijob' = [ijob EXCEPT ![r].st = "done"]
    /\ gChatbot' = TRUE
    /\ UNCHANGED <<gLoop, thr, session, minted, store, known, req, job, resp>>

\* process_message up to the graph's first superstep: the thread's latest
\* checkpoint is read into the run's own state, the input checkpoint is put
JobStart(r) ==
    /\ req[r].op = "chat"
    /\ job[r].pc = "queued"
    /\ CanRun(job[r].loop)
    /\ gChatbot' = TRUE
    /\ job' = [job EXCEPT ![r].pc = "start", ![r].msgs = store[req[r].tid]]
    /\ known' = known \cup {req[r].tid}
    /\ UNCHANGED <<gLoop, thr, session, minted, store, req, ijob, resp>>

\* mutant of Commit: a checkpointer that keeps one state for all threads
CommitShared(r, new) ==
    LET after == job[r].msgs \o new
    IN  store' = [t \in Tids |-> after]

\* the write of one superstep: add_messages appends to the run's state, and
\* the run's state becomes the thread's latest checkpoint
Commit(r, new) ==
    LET after == job[r].msgs \o new
    IN  store' = [store EXCEPT ![req[r].tid] = after]

\* START -> chat_node: the input {"messages": [HumanMessage]} is written
StartNode(r) ==
    /\ job[r].pc = "start"
    /\ CanRun(job[r].loop)
    /\ Commit(r, <<HumanMessage(req[r].text, r)>>)
    /\ job' = [job EXCEPT ![r].pc = "chat",
                          ![r].msgs = @ \o <<HumanMessage(req[r].text, r)>>]
    /\ UNCHANGED <<gLoop, thr, gChatbot, session, minted, known, req, ijob, resp>>

\* what llm_with_tools.ainvoke may return: an answer, or a request for tools
Responses(r) ==
    {AIMessage(c, 0, r) : c \in Replies} \cup {AIMessage("", n, r) : n \in 1..MaxPending}

\* mutant of route_after_chat: a router that never goes to the tools
route_to_end(messages) == "END"

\* route_after_chat, lines 180-185
route_after_chat(messages) ==
    IF Last(messages).role = "ai" /\ Last(messages).ntc > 0 THEN "tools" ELSE "END"

\* mutant of WithinLimit: a runtime that counts no supersteps
NoLimit(r) == job[r].steps >= 0

\* the runtime stops a run that has used up its supersteps
WithinLimit(r) == job[r].steps < RecursionLimit

\* chat_node returns the model's response; route_after_chat picks the next node
ChatNode(r, m) ==
    /\ job[r].pc = "chat"
    /\ CanRun(job[r].loop)
    /\ WithinLimit(r)
    /\ Commit(r, <<m>>)
    /\ job' = [job EXCEPT ![r].msgs = @ \o <<m>>,
                          ![r].steps = @ + 1,
                          ![r].pc = IF route_after_chat(job[r].msgs \o <<m>>) = "tools"
                                    THEN "tools" ELSE "done"]
    /\ UNCHANGED <<gLoop, thr, gChatbot, session, minted, known, req, ijob, resp>>

\* mutant of ChatNodeFails: a chat_node that catches the error and returns it
\* as an answer
ChatNodeFailsWrites(r) ==
    /\ job[r].pc = "chat"
    /\ CanRun(job[r].loop)
    /\ WithinLimit(r)
    /\ Commit(r, <<AIMessage("Error", 0, r)>>)
    /\ job' = [job EXCEPT ![r].pc = "failed", ![r].err = "model",
                          ![r].msgs = @ \o <<AIMessage("Error", 0, r)>>]
    /\ UNCHANGED <<gLoop, thr, gChatbot, session, minted, known, req, ijob, resp>>

\* llm_with_tools.ainvoke raises: chat_node raises, ainvoke raises, no write
ChatNodeFails(r) ==
    /\ job[r].pc = "chat"
    /\ CanRun(job[r].loop)
    /\ WithinLimit(r)
    /\ job' = [job EXCEPT ![r].pc = "failed", ![r].err = "model"]
    /\ UNCHANGED <<gLoop, thr, gChatbot, session, minted, store, known, req, ijob, resp>>

\* one ToolMessage per pending tool call, in the order of the calls; e[i] says
\* whether call i failed (the tool raised, or its name is unknown)
ToolResults(e, r) == [i \in 1..Len(e) |-> ToolMessage(e[i], r)]

\* mutant of ToolsNode: the checkpoint of the tools step misses the last result
ToolsNodePartial(r, e) ==
    /\ job[r].pc = "tools"
    /\ CanRun(job[r].loop)
    /\ WithinLimit(r)
    /\ Len(e) = Last(job[r].msgs).ntc
    /\ Commit(r, SubSeq(ToolResults(e, r), 1, Len(e) - 1))
    /\ job' = [job EXCEPT ![r].msgs = @ \o ToolResults(e, r),
                          ![r].steps = @ + 1,
                          ![r].pc = "chat"]
    /\ UNCHANGED <<gLoop, thr, gChatbot, session, minted, known, req, ijob, resp>>

\* mutant of ToolsNode: a tool node that lets a tool's exception through
ToolsNodeRaises(r, e) ==
    /\ job[r].pc = "tools"
    /\ CanRun(job[r].loop)
    /\ WithinLimit(r)
    /\ Len(e) = Last(job[r].msgs).ntc
    /\ IF \E i \in 1..Len(e) : e[i]
       THEN /\ job' = [job EXCEPT ![r].pc = "failed", ![r].err = "tool"]
            /\ store' = store
       ELSE /\ Commit(r, ToolResults(e, r))
            /\ job' = [job EXCEPT ![r].msgs = @ \o ToolResults(e, r),
                                  ![r].steps = @ + 1,
                                  ![r].pc = "chat"]
    /\ UNCHANGED <<gLoop, thr, gChatbot, session, minted, known, req, ijob, resp>>

\* tool_node, then the edge tools -> chat_node
ToolsNode(r, e) ==
    /\ job[r].pc = "tools"
    /\ CanRun(job[r].loop)
    /\ WithinLimit(r)
    /\ Len(e) = Last(job[r].msgs).ntc
    /\ Commit(r, ToolResults(e, r))
    /\ job' = [job EXCEPT ![r].msgs = @ \o ToolResults(e, r),
                          ![r].steps = @ + 1,
                          ![r].pc = "chat"]
    /\ UNCHANGED <<gLoop, thr, gChatbot, session, minted, known, req, ijob, resp>>

\* a node is due and the limit is used up: ainvoke raises GraphRecursionError
OutOfSteps(r) ==
    /\ job[r].pc \in {"chat", "tools"}
    /\ CanRun(job[r].loop)
    /\ ~WithinLimit(r)
    /\ job' = [job EXCEPT ![r].pc = "failed", ![r].err = "recursion"]
    /\ UNCHANGED <<gLoop, thr, gChatbot, session, minted, store, known, req, ijob, resp>>

\* get_history's list comprehension, lines 137-143
HistoryEntry(msg) ==
    [role |-> IF msg.role = "human" THEN "user" ELSE "assistant", content |-> msg.content]

\* fetch_history, lines 131-144
FetchHistory(t) ==
    IF t \in known /\ store[t] # <<>>
    THEN [i \in 1..Len(store[t]) |-> HistoryEntry(store[t][i])]
    ELSE <<>>

\* mutant of HistoryRun: a read of the state that creates the thread
HistoryRunCreates(r) ==
    /\ req[r].op = "history"
    /\ job[r].pc = "queued"
    /\ CanRun(job[r].loop)
    /\ gChatbot' = TRUE
    /\ job' = [job EXCEPT ![r].pc = "done", ![r].msgs = FetchHistory(req[r].tid)]
    /\ known' = known \cup {req[r].tid}
    /\ UNCHANGED <<gLoop, thr, session, minted, store, req, ijob, resp>>

\* get_history, lines 131-144, on the loop
HistoryRun(r) ==
    /\ req[r].op = "history"
    /\ job[r].pc = "queued"
    /\ CanRun(job[r].loop)
    /\ gChatbot' = TRUE
    /\ job' = [job EXCEPT ![r].pc = "done", ![r].msgs = FetchHistory(req[r].tid)]
    /\ UNCHANGED <<gLoop, thr, session, minted, store, known, req, ijob, resp>>

\* mutant of ThreadsRun: a listing that also holds the thread ids handed out
ThreadsRunMinted(r) ==
    /\ req[r].op = "threads"
    /\ job[r].pc = "queued"
    /\ CanRun(job[r].loop)
    /\ job' = [job EXCEPT ![r].pc = "done", ![r].tset = known \cup minted]
    /\ UNCHANGED <<gLoop, thr, gChatbot, session, minted, store, known, req, ijob, resp>>

\* retrieve_all_threads, lines 200-205
ThreadsRun(r) ==
    /\ req[r].op = "threads"
    /\ job[r].pc = "queued"
    /\ CanRun(job[r].loop)
    /\ job' = [job EXCEPT ![r].pc = "done", ![r].tset = known]
    /\ UNCHANGED <<gLoop, thr, gChatbot, session, minted, store, known, req, ijob, resp>>

\* ------------------------------------------------------------ the system
\* Requests come in from the clients, each served by a Flask worker thread
\* of its own (app.run(threaded=True), line 198).
\* the thread ids a client can put in a request: made up, or received before
Nameable == ClientTids \cup minted

\* the thread ids a chat request names: line 72 gives a request that names the
\* session's thread id the thread id it gives the request that names none, so
\* that request is sent as the one that names none
ChatNameable == Nameable \ {session}

ToolOutcomes == UNION {[1..n -> BOOLEAN] : n \in 1..MaxPending}

\* requests arrive
Arrivals ==
    \/ \E r \in Reqs, x \in Texts, t \in ChatNameable \cup {NoTid} : Arrive(r, "chat", t, x)
    \/ \E r \in Reqs, t \in Nameable : Arrive(r, "history", t, "")
    \/ \E r \in Reqs, t \in Nameable : Arrive(r, "clear", t, "")
    \/ \E r \in Reqs : Arrive(r, "threads", NoTid, "")
    \/ \E r \in Reqs : Arrive(r, "new_thread", NoTid, "")

\* the steps of the Flask worker threads in run_async, once the chatbot is set
\* and the loop runs
Bridge ==
    \/ \E r \in Reqs : LoopCheck(r)
    \/ \E r \in Reqs : Submit(r)
    \/ \E r \in Reqs : Return(r)
    \/ \E r \in Reqs : Timeout(r)

\* the steps of the coroutines on a loop
Work ==
    \/ \E r \in Reqs : JobStart(r)
    \/ \E r \in Reqs : StartNode(r)
    \/ \E r \in Reqs : \E m \in Responses(r) : ChatNode(r, m)
    \/ \E r \in Reqs : ChatNodeFails(r)
    \/ \E r \in Reqs : \E e \in ToolOutcomes : ToolsNode(r, e)
    \/ \E r \in Reqs : OutOfSteps(r)
    \/ \E r \in Reqs : HistoryRun(r)
    \/ \E r \in Reqs : ThreadsRun(r)

\* the steps that happen only while no loop runs yet or the chatbot is not set
Boot ==
    \/ \E r \in Reqs : LoopCreate(r)
    \/ \E k \in Loops : RunLoop(k)
    \/ \E r \in Reqs : InitRun(r)
    \/ \E r \in Reqs : Handler(r)

\* the state app_flask.py's __main__ block leaves (lines 187-188): one loop
\* running, the chatbot set
InitMain ==
    /\ gLoop = 1
    /\ thr = [l \in Loops |-> IF l = 1 THEN [st |-> "running", runs |-> 1]
                              ELSE [st |-> "none", runs |-> NoLoop]]
    /\ gChatbot = TRUE
    /\ session = NoTid
    /\ minted = {}
    /\ store = Database
    /\ known = {t \in Tids : Database[t] # <<>>}
    /\ req = [r \in Reqs |-> NoReq]
    /\ ijob = [r \in Reqs |-> NoIJob]
    /\ job = [r \in Reqs |-> NoJob]
    /\ resp = [r \in Reqs |-> NoResp]

\* The server started by `python app_flask.py`: requests arrive after the
\* __main__ block; none of the Boot steps is ever enabled.
NextMain == Arrivals \/ Bridge \/ Work

SpecMain == InitMain /\ [][NextMain]_vars

\* The same server in a run in which one request is sent to it.
NextSolo == ((\A r \in Reqs : req[r].pc = "new") /\ Arrivals) \/ Bridge \/ Work

SpecSolo == InitMain /\ [][NextSolo]_vars

\* The started server after its loop thread has ended (run_forever() returned
\* or raised): _loop names a loop object that no thread runs, the chatbot is
\* set, and the next callers of get_or_create_loop find the loop not running.
OldLoop == MaxLoops + 1

InitDead ==
    /\ gLoop = OldLoop
    /\ thr = [l \in Loops |-> [st |-> "none", runs |-> NoLoop]]
    /\ gChatbot = TRUE
    /\ session = NoTid
    /\ minted = {}
    /\ store = Database
    /\ known = {t \in Tids : Database[t] # <<>>}
    /\ req = [r \in Reqs |-> NoReq]
    /\ ijob = [r \in Reqs |-> NoIJob]
    /\ job = [r \in Reqs |-> NoJob]
    /\ resp = [r \in Reqs |-> NoResp]

Restart ==
    \/ \E r \in Reqs : LoopCreate(r)
    \/ \E k \in Loops : RunLoop(k)

NextDead == Arrivals \/ Bridge \/ Work \/ Restart

SpecDead == InitDead /\ [][NextDead]_vars

\* The worker threads run: a thread that can take its next step in
\* get_or_create_loop or run_async takes it, and a wait ends, with the
\* coroutine's outcome or after its 60 seconds. Nothing makes the coroutines
\* on a loop advance: the model, a tool or the loop itself may hang.
WorkerStep(r) == LoopCheck(r) \/ LoopCreate(r) \/ Submit(r) \/ Return(r) \/ Timeout(r)

SpecDeadFair == SpecDead /\ \A r \in Reqs : WF_vars(WorkerStep(r))

\* The module imported by a WSGI server: the first requests find _loop and
\* _chatbot unset.
Next == Arrivals \/ Bridge \/ Work \/ Boot

Spec == Init /\ [][Next]_vars

\* ================================================================ claims
IsChat(r) == req[r].op = "chat" /\ job[r].pc # "none"
Finished(r) == job[r].pc \in {"done", "failed"}
Failure(r) == resp[r].out \in {"error", "timeout"}

\* the messages request r's invoke appended and committed
Own(r) == SelectSeq(job[r].msgs, LAMBDA m : m.by = r)

\* the invokes that have read the state of thread t
Writers(t) == {r \in Reqs : IsChat(r) /\ req[r].tid = t /\ job[r].pc # "queued"}

IsPrefix(a, b) == Len(a) <= Len(b) /\ SubSeq(b, 1, Len(a)) = a

\* the thread's messages of role user or assistant, each with its role
UserAssistantOnly(msgs) ==
    LET kept == SelectSeq(msgs, LAMBDA m : m.role \in {"human", "ai"})
    IN  [i \in 1..Len(kept) |->
            [role |-> IF kept[i].role = "human" THEN "user" ELSE "assistant",
             content |-> kept[i].content]]

\* ---------------------------------------------------------------------
\* C1: two submits on the same thread_id, both over: the thread holds what it
\* held before them, then the messages of the one followed by the messages of
\* the other, each call's user message followed by its own assistant and tool
\* messages, none lost.
C1_SubmitsSerialized ==
    \A a, b \in Reqs :
        (/\ a # b /\ IsChat(a) /\ IsChat(b) /\ req[a].tid = req[b].tid
         /\ Finished(a) /\ Finished(b)
         /\ Writers(req[a].tid) = {a, b})
        => LET before == SelectSeq(job[a].msgs, LAMBDA m : m.by \notin {a, b})
           IN  \/ store[req[a].tid] = before \o Own(a) \o Own(b)
               \/ store[req[a].tid] = before \o Own(b) \o Own(a)

C3_NoAssistantOfFailedCall ==
    \A r \in Reqs :
        (IsChat(r) /\ job[r].err = "model") =>
            /\ resp[r].out # "none" => Failure(r)
            /\ \E i \in 1..Len(store[req[r].tid]) :
                   store[req[r].tid][i] = HumanMessage(req[r].text, r)
            /\ \A i \in 1..Len(store[req[r].tid]) :
                   ~(store[req[r].tid][i].role = "ai" /\ store[req[r].tid][i].by = r)

\* C3 as amended: after a reasoning-service failure the caller has a failure;
\* what the call committed is its user message followed by whole tool rounds
\* (an assistant message with tool calls, then its tool results), never an
\* assistant answer and nothing after the failure; and the thread holds
\* exactly the state the call read plus that, when no other submit has read
\* or written the thread.
C3_FailureKeepsCommitted ==
    \A r \in Reqs :
        (IsChat(r) /\ job[r].err = "model") =>
            /\ resp[r].out # "none" => Failure(r)
            /\ Len(Own(r)) >= 1
            /\ Own(r)[1] = HumanMessage(req[r].text, r)
            /\ Last(job[r].msgs).role \in {"human", "tool"}
            /\ \A i \in 1..Len(Own(r)) : Own(r)[i].role = "ai" => Own(r)[i].ntc > 0
            /\ Writers(req[r].tid) = {r} => store[req[r].tid] = job[r].msgs

\* the reasoning service failed after a tool round, the caller got the failure
C3_Witness ==
    \E r \in Reqs :
        /\ IsChat(r) /\ job[r].err = "model" /\ resp[r].out = "error"
        /\ Len(Own(r)) >= 3
        /\ store[req[r].tid] = job[r].msgs

\* ---------------------------------------------------------------------
\* C4: the tools node never ends an invoke: whatever the tools do, it commits
\* one tool message per pending call (an error message for a failed call) and
\* hands over to the chat node; no invoke fails for a tool's error.
C4_ToolErrorsRecovered ==
    /\ [](\A r \in Reqs : job[r].err \in {"none", "model", "recursion"})
    /\ [][\A r \in Reqs :
            (job[r].pc = "tools" /\ job'[r] # job[r]) =>
                \/ job'[r].pc = "failed" /\ job'[r].err = "recursion"
                \/ /\ job'[r].pc = "chat"
                   /\ Len(job'[r].msgs) = Len(job[r].msgs) + Last(job[r].msgs).ntc
                   /\ IsPrefix(job[r].msgs, job'[r].msgs)
                   /\ \A i \in (Len(job[r].msgs) + 1)..Len(job'[r].msgs) :
                          job'[r].msgs[i].role = "tool"
                   /\ store'[req[r].tid] = job'[r].msgs]_vars

\* a submit succeeded although every tool call of it failed
C4_Witness ==
    \E r \in Reqs :
        /\ IsChat(r) /\ resp[r].out = "ok" /\ job[r].pc = "done"
        /\ \E i \in 1..Len(Own(r)) : Own(r)[i].role = "tool"
        /\ \A i \in 1..Len(Own(r)) : Own(r)[i].role = "tool" => Own(r)[i].err
        /\ Last(job[r].msgs).role = "ai" /\ Last(job[r].msgs).ntc = 0
        /\ resp[r].text = Last(job[r].msgs).content

\* ---------------------------------------------------------------------
\* C5: the step in which a caller's wait times out gives the caller the
\* timeout failure and leaves the submitted coroutine, unfinished, where it
\* is on its loop, and the store as it is.
C5_TimeoutLeavesWork ==
    [][\A r \in Reqs :
            (resp[r].out # "timeout" /\ resp'[r].out = "timeout") =>
                /\ job'[r] = job[r]
                /\ job[r].pc \in {"queued", "start", "chat", "tools"}
                /\ store' = store /\ known' = known]_vars

\* the history of the thread shows the assistant's answer to a submit whose
\* caller got the timeout failure
C5_Witness ==
    \E r \in Reqs :
        /\ IsChat(r) /\ resp[r].out = "timeout" /\ job[r].pc = "done"
        /\ \E i \in 1..Len(FetchHistory(req[r].tid)) :
               /\ store[req[r].tid][i].by = r
               /\ store[req[r].tid][i].role = "ai" /\ store[req[r].tid][i].ntc = 0
               /\ FetchHistory(req[r].tid)[i].role = "assistant"

\* ---------------------------------------------------------------------
\* C6: at most one loop object is ever created, and every coroutine handed
\* over is handed to it.
C6_OneScheduler ==
    /\ Cardinality({l \in Loops : thr[l].st # "none"}) <= 1
    /\ \A a, b \in Reqs :
           (job[a].loop # NoLoop /\ job[b].loop # NoLoop) => job[a].loop = job[b].loop
    /\ \A a, b \in Reqs :
           (ijob[a].loop # NoLoop /\ job[b].loop # NoLoop) => ijob[a].loop = job[b].loop

\* ---------------------------------------------------------------------
\* C7: what the history coroutine returns is the thread's user and assistant
\* messages, in order, each with its own role, and no tool message.
C7_HistoryFiltersRoles ==
    [][\A r \in Reqs :
            (req[r].op = "history" /\ job[r].pc = "queued" /\ job'[r].pc = "done")
            => job'[r].msgs = UserAssistantOnly(store[req[r].tid])]_vars

\* ---------------------------------------------------------------------
\* C8: every step leaves every thread's message sequence a prefix of what it
\* is after the step.
C8_AppendOnly ==
    [][\A t \in Tids : IsPrefix(store[t], store'[t])]_vars

\* ---------------------------------------------------------------------
\* The case of C9: request r's submit succeeded on a thread that had no
\* message when its invoke read it, and no other submit has touched the thread.
RoundTrip(r) ==
    /\ IsChat(r) /\ resp[r].out = "ok"
    /\ Own(r) = job[r].msgs
    /\ Writers(req[r].tid) = {r}

C10_ClearUnsupported ==
    /\ [](\A r \in Reqs :
            (req[r].op = "clear" /\ req[r].pc = "done") => resp[r].out = "unsupported")
    /\ [][\A r \in Reqs :
            (req[r].pc # "done" /\ req'[r].pc = "done" /\ req'[r].op = "clear")
            => (store' = store /\ known' = known)]_vars

\* a clear request for a thread that has messages was answered, and the
\* messages are there
C10_Witness ==
    \E r \in Reqs :
        /\ req[r].op = "clear" /\ resp[r].out = "unsupported"
        /\ req[r].tid \in known /\ Len(store[req[r].tid]) >= 2

\* ---------------------------------------------------------------------
\* the step in which request r's route runs up to its answer or its run_async
Routed(r) ==
    /\ req[r].pc \in {"new", "handler"}
    /\ req'[r].pc \in {"check", "done"} /\ req'[r].ph = "op"

\* a chat request whose text is empty once stripped
EmptyChat(r) == req[r].op = "chat" /\ Strip(req[r].text) = ""

\* C11: a chat request whose stripped text is empty never has a coroutine
\* handed to a loop by its route, its answer is the bad-input failure, and the
\* step that answers it leaves every thread's messages, the set of threads and
\* every coroutine as they are.
C11_EmptyRejected ==
    /\ [](\A r \in Reqs :
            EmptyChat(r) =>
                /\ job[r] = NoJob
                /\ (req[r].ph = "op" /\ req[r].pc \notin {"new", "handler"})
                       => (req[r].pc = "done" /\ resp[r].out = "badinput"))
    /\ [][\A r \in Reqs :
            (Routed(r) /\ req'[r].op = "chat" /\ Strip(req'[r].text) = "")
            => (store' = store /\ known' = known /\ job' = job /\ ijob' = ijob)]_vars

\* a request of blanks that names no thread was rejected: the session got a
\* thread id, the store no thread
C11_Witness ==
    \E r \in Reqs :
        /\ req[r].op = "chat" /\ req[r].text = " " /\ req[r].arg = NoTid
        /\ resp[r].out = "badinput" /\ job[r] = NoJob
        /\ session \in minted /\ session \notin known /\ store[session] = <<>>

\* ---------------------------------------------------------------------
\* an accepted chat request that named no thread_id
Omitted(r) == req[r].op = "chat" /\ req[r].arg = NoTid /\ req[r].tid # NoTid

\* C12 as claimed: the invoke of a submit that names no thread_id reads a
\* thread without messages, and no two submits that name none use the same
\* thread.
C12_OmittedMintsFresh ==
    /\ \A r \in Reqs :
           (Omitted(r) /\ job[r].pc \notin {"none", "queued"}) => Own(r) = job[r].msgs
    /\ \A a, b \in Reqs :
           (a # b /\ Omitted(a) /\ Omitted(b)) => req[a].tid # req[b].tid

\* C12 as amended: the route of a submit that names no thread_id uses the
\* session's thread id; it mints one, a value never drawn before whose thread
\* has no checkpoint, and puts it in the session, exactly when the session
\* holds none.
C12_OmittedUsesSession ==
    [][\A r \in Reqs :
            (Routed(r) /\ req'[r].op = "chat" /\ req'[r].arg = NoTid /\ req'[r].pc = "check")
            => IF session = NoTid
               THEN /\ req'[r].tid \in MintTids \ minted
                    /\ minted' = minted \cup {req'[r].tid}
                    /\ session' = req'[r].tid
                    /\ req'[r].tid \notin known /\ store[req'[r].tid] = <<>>
               ELSE /\ req'[r].tid = session
                    /\ minted' = minted /\ session' = session]_vars

\* two submits that named no thread_id, one after the other was over, are on
\* the same thread, which holds the messages of both
C12_Witness ==
    \E a, b \in Reqs :
        /\ a # b /\ Omitted(a) /\ Omitted(b) /\ req[a].tid = req[b].tid
        /\ resp[a].out = "ok" /\ resp[b].out = "ok"
        /\ store[req[a].tid] = Own(a) \o Own(b)

\* ---------------------------------------------------------------------
\* C13: a step of the invoke of a submit on thread A leaves the messages of
\* every other thread as they are, and the messages of a thread change only
\* in a step of an invoke on that thread.
C13_ThreadsIsolated ==
    [][/\ \A r \in Reqs :
              (IsChat(r) /\ job'[r] # job[r]) =>
                  \A t \in Tids \ {req[r].tid} : store'[t] = store[t]
       /\ \A t \in Tids :
              store'[t] # store[t] =>
                  \E r \in Reqs : /\ IsChat(r) /\ req[r].tid = t
                                   /\ job[r].pc \in {"start", "chat", "tools"}
                                   /\ job'[r] # job[r]]_vars

\* two submits on different threads ran a tool round each, one of them after
\* its caller had timed out, and each thread holds what its own invoke holds
C13_Witness ==
    \E a, b \in Reqs :
        /\ IsChat(a) /\ IsChat(b) /\ req[a].tid # req[b].tid
        /\ resp[a].out = "timeout" /\ resp[b].out = "ok"
        /\ job[a].pc = "done" /\ job[b].pc = "done"
        /\ Len(Own(a)) >= 4 /\ Len(Own(b)) >= 4
        /\ store[req[a].tid] = job[a].msgs /\ store[req[b].tid] = job[b].msgs

\* ---------------------------------------------------------------------
\* every tool-calling assistant message of s is the last message of s or is
\* followed by exactly its batch: one tool message per call
Whole(s) ==
    \A i \in 1..Len(s) :
        (s[i].role = "ai" /\ s[i].ntc > 0 /\ i < Len(s)) =>
            /\ i + s[i].ntc <= Len(s)
            /\ \A j \in 1..s[i].ntc : s[i + j].role = "tool"
            /\ i + s[i].ntc < Len(s) => s[i + s[i].ntc + 1].role # "tool"

\* the invokes that put messages in the store: this run's, and the earlier run's
Authors == Reqs \cup {Earlier[1].by}

C15_SubmitReturns ==
    \A r \in Reqs :
        (req[r].op = "chat" /\ req[r].pc # "new")
            ~> (req[r].pc = "done" /\ resp[r].out \in {"ok", "badinput", "error", "timeout"})

\* a submit whose coroutine sits on a loop that no thread runs got the
\* timeout failure
C15_Witness ==
    \E r \in Reqs :
        /\ IsChat(r) /\ req[r].pc = "done" /\ resp[r].out = "timeout"
        /\ job[r].pc = "queued" /\ job[r].loop # gLoop /\ ~IsRunning(job[r].loop)
        /\ \A k \in Loops : thr[k].st # "started"

\* ---------------------------------------------------------------------
\* thread t has a checkpoint: the store held one at the start, or an invoke on
\* t has begun
HasCheckpoint(t) ==
    \/ Database[t] # <<>>
    \/ \E r \in Reqs : IsChat(r) /\ req[r].tid = t /\ job[r].pc # "queued"

\* C16: the listing coroutine returns exactly the threads that have a
\* checkpoint, and the request answers with that set; a thread that holds a
\* message has a checkpoint, and a thread id that was only handed out, or only
\* asked the history of, has none.
C16_ListsCheckpointed ==
    /\ [](\A t \in Tids : store[t] # <<>> => HasCheckpoint(t))
    /\ [](\A r \in Reqs :
            (req[r].op = "threads" /\ resp[r].out = "ok") => resp[r].threads = job[r].tset)
    /\ [][\A r \in Reqs :
            (req[r].op = "threads" /\ job[r].pc = "queued" /\ job'[r].pc = "done")
            => job'[r].tset = {t \in Tids : HasCheckpoint(t)}]_vars

\* the listing holds the new thread of a submit that failed, next to the
\* thread the store held at the start
C16_Witness ==
    \E r, q \in Reqs :
        /\ IsChat(r) /\ req[r].tid \in minted /\ Database[req[r].tid] = <<>>
        /\ resp[r].out = "error"
        /\ req[q].op = "threads" /\ resp[q].out = "ok"
        /\ req[r].tid \in resp[q].threads
        /\ resp[q].threads = {req[r].tid} \cup ClientTids

\* ---------------------------------------------------------------------
\* C17: a step of an invoke at START appends the user message and goes to
\* the chat node; a step of the chat node that appends a response goes to the
\* tools exactly when the response carries tool calls and ends the invoke
\* otherwise; a step of the tools node appends its results and goes to the
\* chat node; an invoke that has ended takes no step. (The steps that append
\* nothing are the failures: of the model, and of the step limit.)
C17_Routing ==
    [][\A r \in Reqs :
            (IsChat(r) /\ job'[r] # job[r]) =>
                CASE job[r].pc = "queued" -> job'[r].pc = "start"
                  [] job[r].pc = "start" ->
                        /\ job'[r].pc = "chat"
                        /\ job'[r].msgs = job[r].msgs \o <<HumanMessage(req[r].text, r)>>
                  [] job[r].pc = "chat" ->
                        \/ job'[r].pc = "failed" /\ job'[r].msgs = job[r].msgs
                        \/ /\ Len(job'[r].msgs) = Len(job[r].msgs) + 1
                           /\ IsPrefix(job[r].msgs, job'[r].msgs)
                           /\ Last(job'[r].msgs).role = "ai"
                           /\ job'[r].pc = IF Last(job'[r].msgs).ntc > 0 THEN "tools" ELSE "done"
                  [] job[r].pc = "tools" ->
                        \/ job'[r].pc = "failed" /\ job'[r].msgs = job[r].msgs
                        \/ /\ job'[r].pc = "chat"
                           /\ Len(job'[r].msgs) > Len(job[r].msgs)
                           /\ IsPrefix(job[r].msgs, job'[r].msgs)
                  [] OTHER -> FALSE]_vars

\* an invoke went START, chat, tools, chat, END
C17_Witness ==
    \E r \in Reqs :
        /\ IsChat(r) /\ job[r].pc = "done" /\ job[r].steps = 3
        /\ Len(Own(r)) >= 4
        /\ Own(r)[1].role = "human" /\ Own(r)[2].role = "ai" /\ Own(r)[2].ntc > 0
        /\ Own(r)[3].role = "tool" /\ Last(Own(r)).role = "ai" /\ Last(Own(r)).ntc = 0

\* ---------------------------------------------------------------------
\* C18: no coroutine handed over by a caller sits on a loop that no thread
\* runs and no thread is about to run.
C18_RestartRunsWork ==
    \A r \in Reqs :
        job[r].loop # NoLoop =>
            \/ IsRunning(job[r].loop)
            \/ job[r].loop = gLoop /\ \E k \in Loops : thr[k].st = "started"

\* ---------------------------------------------------------------------
\* C19: a submit answered with success returns the content of the last
\* message of the state its invoke ended with, and that message is an
\* assistant message without tool calls.
C19_ReplyIsLastAssistant ==
    \A r \in Reqs :
        (req[r].op = "chat" /\ resp[r].out = "ok") =>
            /\ job[r].pc = "done"
            /\ resp[r].text = Last(job[r].msgs).content
            /\ Last(job[r].msgs).role = "ai" /\ Last(job[r].msgs).ntc = 0

\* a submit that ran a tool round returned the answer that follows the tool
\* result
C19_Witness ==
    \E r \in Reqs :
        /\ req[r].op = "chat" /\ resp[r].out = "ok" /\ resp[r].text \in Replies
        /\ Len(job[r].msgs) >= 2
        /\ job[r].msgs[Len(job[r].msgs) - 1].role = "tool"
        /\ job[r].msgs[Len(job[r].msgs) - 1].content # resp[r].text

\* ---------------------------------------------------------------------
\* C20: no step of a history request changes a thread's messages or the set
\* of threads; its coroutine returns the empty sequence for a thread without
\* messages, and the request answers with what the coroutine returned.
C20_HistoryReadOnly ==
    /\ [][\A r \in Reqs :
            (req'[r].op = "history" /\ (req'[r] # req[r] \/ job'[r] # job[r]))
            => (store' = store /\ known' = known)]_vars
    /\ [][\A r \in Reqs :
            (req[r].op = "history" /\ job[r].pc = "queued" /\ job'[r].pc = "done"
             /\ store[req[r].tid] = <<>>)
            => job'[r].msgs = <<>>]_vars
    /\ [](\A r \in Reqs :
            (req[r].op = "history" /\ resp[r].out = "ok") => resp[r].hist = job[r].msgs)

\* the history of a thread id that was handed out and never written came back
\* empty, and the thread is still not there
C20_Witness ==
    \E r \in Reqs :
        /\ req[r].op = "history" /\ resp[r].out = "ok" /\ resp[r].hist = <<>>
        /\ req[r].tid \in minted
        /\ req[r].tid \notin known /\ store[req[r].tid] = <<>>

====
